---- MODULE Spec2Model ----
(***************************************************************************)
(* The authorization engine of the document manager                        *)
(* (src/src/utils/permissionManagement.ts): three module-level arrays      *)
(* (users, groups, permissions), the administration operations that mutate *)
(* them and the resolution function checkPermission that reads them.       *)
(*                                                                         *)
(* Strings are sequences of one-character strings, so that trim() and      *)
(* toLowerCase() are computed rather than assumed. uuidv4() is a fresh     *)
(* value per call: <<kind, n>> with n a per-kind serial number.            *)
(***************************************************************************)
EXTENDS Integers, Sequences, FiniteSets, TLC

VARIABLES users, groups, permissions, now, uuidCount, held, inProgress,
          folders, folderCount,
          tags, documentTags, tagCount,
          file, metadata, uploadProgress, selectedFolderId, documents, uploads,
          uploadCount

\* The state of permissionManagement.ts and of its callers.
permissionVars == <<users, groups, permissions, now, uuidCount, held, inProgress>>

\* The state of folderManagement.ts: the folders array and the number of
\* ids uuidv4() has given to folders.
folderVars == <<folders, folderCount>>

\* The state of tagManagement.ts: the tags and documentTags arrays and the
\* number of ids uuidv4() has given to tags.
tagVars == <<tags, documentTags, tagCount>>

\* The state of FileUpload and of the documents of AppProvider: the form,
\* the runs of handleUpload that await their timer, and the number of runs
\* started.
uploadVars ==
  <<file, metadata, uploadProgress, selectedFolderId, documents, uploads, uploadCount>>

vars == <<permissionVars, folderVars, tagVars, uploadVars>>

(***************************************************************************)
(* Bounds of the model.                                                    *)
(***************************************************************************)
MaxUsers == 2
MaxGroups == 2
MaxPrincipals == 3
MaxPermissionIds == 2
MaxTime == 2
MaxFolderIds == 2
MaxPathLen == 2
MaxUploads == 2
MaxTagIds == 2

(***************************************************************************)
(* String helpers: String.prototype.trim and String.prototype.toLowerCase. *)
(***************************************************************************)
toLowerCaseChar(c) ==
  CASE c = "A" -> "a"
    [] c = "B" -> "b"
    [] c = "E" -> "e"
    [] c = "F" -> "f"
    [] OTHER -> c

toLowerCase(s) == [i \in 1..Len(s) |-> toLowerCaseChar(s[i])]

RECURSIVE trimStart(_)
trimStart(s) == IF s # <<>> /\ s[1] = " " THEN trimStart(Tail(s)) ELSE s

RECURSIVE trimEnd(_)
trimEnd(s) ==
  IF s # <<>> /\ s[Len(s)] = " " THEN trimEnd(SubSeq(s, 1, Len(s) - 1)) ELSE s

trim(s) == trimEnd(trimStart(s))

(***************************************************************************)
(* Array helpers: indices are 1-based, 0 stands for findIndex's -1 and for *)
(* find's undefined.                                                       *)
(***************************************************************************)
FirstIndex(S) == IF S = {} THEN 0 ELSE CHOOSE i \in S : \A j \in S : i <= j

includes(seq, x) == \E i \in 1..Len(seq) : seq[i] = x

indexOf(seq, x) == FirstIndex({i \in 1..Len(seq) : seq[i] = x})

splice1(seq, i) == SubSeq(seq, 1, i - 1) \o SubSeq(seq, i + 1, Len(seq))

(***************************************************************************)
(* Identifiers. uuidv4() never returns a value it returned before; the     *)
(* session id 'admin' of AppProvider is a fixed string that no uuid equals.*)
(***************************************************************************)
uuidv4(kind, n) == <<kind, n>>

SessionUserId == <<"admin", 0>>

(***************************************************************************)
(* PermissionLevel and the order hasPermissionLevel gives it.              *)
(***************************************************************************)
\* The order a reader of the level names would expect: download below edit.
levelsDownloadBelowEdit == <<"view", "download", "edit", "admin">>

levels == <<"view", "edit", "download", "admin">>

PermissionLevel == {"view", "edit", "download", "admin"}

\* hasPermissionLevel with a strict comparison.
hasPermissionLevelStrict(userLevel, requiredLevel) ==
  indexOf(levels, userLevel) > indexOf(levels, requiredLevel)

hasPermissionLevel(userLevel, requiredLevel) ==
  indexOf(levels, userLevel) >= indexOf(levels, requiredLevel)

\* getDocumentPermissions without its filter: the Permissions of every
\* document.
getDocumentPermissionsOfAll(documentId) == permissions

getDocumentPermissions(documentId) ==
  SelectSeq(permissions, LAMBDA p : p.documentId = documentId)

\* getUserPermissions without the grants of the user's groups.
getUserPermissionsDirectOnly(userId) ==
  SelectSeq(permissions, LAMBDA p : p.granteeType = "user" /\ p.granteeId = userId)

\* getUserPermissions with the grants of the first group of the user only
\* (find in the place of filter).
getUserPermissionsFirstGroupOnly(userId) ==
  LET userGroups == SelectSeq(groups, LAMBDA g : includes(g.members, userId))
      groupIds == IF userGroups = <<>> THEN <<>> ELSE <<userGroups[1].id>>
  IN  SelectSeq(permissions, LAMBDA p :
        \/ (p.granteeType = "user" /\ p.granteeId = userId)
        \/ (p.granteeType = "group" /\ includes(groupIds, p.granteeId)))

\* getUserPermissions comparing the grantee's id and not its type.
getUserPermissionsOfAnyType(userId) ==
  LET userGroups == SelectSeq(groups, LAMBDA g : includes(g.members, userId))
      groupIds == [i \in 1..Len(userGroups) |-> userGroups[i].id]
  IN  SelectSeq(permissions, LAMBDA p :
        \/ p.granteeId = userId
        \/ (p.granteeType = "group" /\ includes(groupIds, p.granteeId)))

getUserPermissions(userId) ==
  LET userGroups == SelectSeq(groups, LAMBDA g : includes(g.members, userId))
      groupIds == [i \in 1..Len(userGroups) |-> userGroups[i].id]
  IN  SelectSeq(permissions, LAMBDA p :
        \/ (p.granteeType = "user" /\ p.granteeId = userId)
        \/ (p.granteeType = "group" /\ includes(groupIds, p.granteeId)))

(***************************************************************************)
(* Lookups of the operations.                                              *)
(***************************************************************************)
userIndexById(userId) ==
  FirstIndex({i \in 1..Len(users) : users[i].id = userId})

groupIndexById(groupId) ==
  FirstIndex({i \in 1..Len(groups) : groups[i].id = groupId})

existingUserIndex(email) ==
  FirstIndex({i \in 1..Len(users) :
                toLowerCase(users[i].email) = toLowerCase(email)})

existingGroupIndex(name) ==
  FirstIndex({i \in 1..Len(groups) :
                toLowerCase(groups[i].name) = toLowerCase(name)})

\* The lookup of a Permission's tuple with the grantee's type left out.
existingPermissionIndexAnyType(documentId, granteeId, granteeType) ==
  FirstIndex({i \in 1..Len(permissions) :
                /\ permissions[i].documentId = documentId
                /\ permissions[i].granteeId = granteeId})

\* The lookup of a Permission's tuple comparing the Permission's own id with
\* the grantee: it never finds one.
existingPermissionIndexById(documentId, granteeId, granteeType) ==
  FirstIndex({i \in 1..Len(permissions) :
                /\ permissions[i].documentId = documentId
                /\ permissions[i].id = granteeId
                /\ permissions[i].granteeType = granteeType})

existingPermissionIndex(documentId, granteeId, granteeType) ==
  FirstIndex({i \in 1..Len(permissions) :
                /\ permissions[i].documentId = documentId
                /\ permissions[i].granteeId = granteeId
                /\ permissions[i].granteeType = granteeType})

\* The validation of the grantee looking the id up among users and groups
\* alike, whatever the type given.
granteeExistsOfAnyType(granteeId, granteeType) ==
  userIndexById(granteeId) # 0 \/ groupIndexById(granteeId) # 0

\* grantPermission without the validation of the grantee.
granteeExistsAlways(granteeId, granteeType) == TRUE

granteeExists(granteeId, granteeType) ==
  /\ ~(granteeType = "user" /\ userIndexById(granteeId) = 0)
  /\ ~(granteeType = "group" /\ groupIndexById(granteeId) = 0)

(***************************************************************************)
(* checkPermission: the admin bypass, then the fold over the user's        *)
(* permissions on the document.                                            *)
(***************************************************************************)
RECURSIVE reduceHighest(_, _)
reduceHighest(perms, highest) ==
  IF perms = <<>> THEN highest
  ELSE reduceHighest(Tail(perms),
         IF hasPermissionLevel(Head(perms).level, highest)
         THEN Head(perms).level ELSE highest)

\* checkPermission without the bypass for administrators.
checkPermissionNoBypass(documentId, userId, requiredLevel) ==
  LET documentPermissions ==
        SelectSeq(getUserPermissions(userId), LAMBDA p : p.documentId = documentId)
  IN  IF Len(documentPermissions) = 0 THEN FALSE
      ELSE hasPermissionLevel(reduceHighest(documentPermissions, "view"), requiredLevel)

checkPermission(documentId, userId, requiredLevel) ==
  LET u == userIndexById(userId)
      userPermissions == getUserPermissions(userId)
      documentPermissions ==
        SelectSeq(userPermissions, LAMBDA p : p.documentId = documentId)
      highestLevel == reduceHighest(documentPermissions, "view")
  IN  IF u # 0 /\ users[u].role = "admin" THEN TRUE
      ELSE IF Len(documentPermissions) = 0 THEN FALSE
      ELSE hasPermissionLevel(highestLevel, requiredLevel)

\* What Array.prototype.find returns when no element matches.
Undefined == [undefined |-> TRUE]

\* The values null and undefined where an id may stand: no uuid equals
\* either.
Null == <<"null", 0>>

UndefinedId == <<"undefined", 0>>

findUser(userId) ==
  IF userIndexById(userId) = 0 THEN Undefined ELSE users[userIndexById(userId)]

findGroup(groupId) ==
  IF groupIndexById(groupId) = 0 THEN Undefined ELSE groups[groupIndexById(groupId)]

getDocumentAccessList(documentId) ==
  LET documentPermissions == getDocumentPermissions(documentId)
      ofUsers == SelectSeq(documentPermissions, LAMBDA p : p.granteeType = "user")
      ofGroups == SelectSeq(documentPermissions, LAMBDA p : p.granteeType = "group")
  IN  [users |-> [i \in 1..Len(ofUsers) |->
                    [user |-> findUser(ofUsers[i].granteeId),
                     permission |-> ofUsers[i]]],
       groups |-> [i \in 1..Len(ofGroups) |->
                    [group |-> findGroup(ofGroups[i].granteeId),
                     permission |-> ofGroups[i]]]]

(***************************************************************************)
(* A call returns a PermissionError or its result; callers tell them apart *)
(* with `'type' in result`. An outcome's `error` is the type of the        *)
(* PermissionError returned, NoError when the call returns its result, and *)
(* `result` is then that result.                                           *)
(***************************************************************************)
NoError == "none"

PermissionError(type) == [error |-> type, result |-> FALSE]

Returns(value) == [error |-> NoError, result |-> value]

isError(outcome) == outcome.error # NoError

(***************************************************************************)
(* Operations. For each exported function F, FOutcome is its body: what it *)
(* returns and the array it leaves behind, computed from the arrays and    *)
(* the arguments. A call that returns a PermissionError returns before it  *)
(* writes anything, so the action F is the call that returns its result    *)
(* and stores the array of its outcome.                                    *)
(***************************************************************************)
\* createUser validating the name only.
createUserOutcomeNameOnly(name, email, role) ==
  IF trim(name) = <<>>
  THEN PermissionError("VALIDATION_ERROR") @@ [users |-> users]
  ELSE IF existingUserIndex(email) # 0
  THEN PermissionError("INVALID_OPERATION") @@ [users |-> users]
  ELSE LET newUser == [id |-> uuidv4("user", Len(users) + 1),
                       name |-> trim(name),
                       email |-> trim(toLowerCase(email)),
                       role |-> role]
       IN  Returns(newUser) @@ [users |-> Append(users, newUser)]

createUserOutcome(name, email, role) ==
  IF trim(name) = <<>> \/ trim(email) = <<>>
  THEN PermissionError("VALIDATION_ERROR") @@ [users |-> users]
  ELSE IF existingUserIndex(email) # 0
  THEN PermissionError("INVALID_OPERATION") @@ [users |-> users]
  ELSE LET newUser == [id |-> uuidv4("user", Len(users) + 1),
                       name |-> trim(name),
                       email |-> trim(toLowerCase(email)),
                       role |-> role]
       IN  Returns(newUser) @@ [users |-> Append(users, newUser)]

createUser(name, email, role) ==
  \E outcome \in {createUserOutcome(name, email, role)} :
    /\ ~isError(outcome)
    /\ Len(outcome.users) <= MaxUsers
    /\ Len(outcome.users) + Len(groups) <= MaxPrincipals
    /\ users' = outcome.users
    /\ UNCHANGED <<groups, permissions, now, uuidCount, held, inProgress, folderVars, tagVars, uploadVars>>

createGroupOutcome(name, description) ==
  IF trim(name) = <<>>
  THEN PermissionError("VALIDATION_ERROR") @@ [groups |-> groups]
  ELSE IF existingGroupIndex(name) # 0
  THEN PermissionError("INVALID_OPERATION") @@ [groups |-> groups]
  ELSE LET newGroup == [id |-> uuidv4("group", Len(groups) + 1),
                        name |-> trim(name),
                        description |-> trim(description),
                        members |-> <<>>]
       IN  Returns(newGroup) @@ [groups |-> Append(groups, newGroup)]

createGroup(name, description) ==
  \E outcome \in {createGroupOutcome(name, description)} :
    /\ ~isError(outcome)
    /\ Len(outcome.groups) <= MaxGroups
    /\ Len(users) + Len(outcome.groups) <= MaxPrincipals
    /\ groups' = outcome.groups
    /\ UNCHANGED <<users, permissions, now, uuidCount, held, inProgress, folderVars, tagVars, uploadVars>>

\* addUserToGroup without the check of lines 151-156 that the user is not a
\* member yet.
addUserToGroupOutcomeNoMemberCheck(userId, groupId) ==
  LET groupIndex == groupIndexById(groupId)
  IN  IF userIndexById(userId) = 0
      THEN PermissionError("NOT_FOUND") @@ [groups |-> groups]
      ELSE IF groupIndex = 0
      THEN PermissionError("NOT_FOUND") @@ [groups |-> groups]
      ELSE Returns(TRUE) @@
           [groups |-> [groups EXCEPT ![groupIndex].members = Append(@, userId)]]

addUserToGroupOutcome(userId, groupId) ==
  LET groupIndex == groupIndexById(groupId)
  IN  IF userIndexById(userId) = 0
      THEN PermissionError("NOT_FOUND") @@ [groups |-> groups]
      ELSE IF groupIndex = 0
      THEN PermissionError("NOT_FOUND") @@ [groups |-> groups]
      ELSE IF includes(groups[groupIndex].members, userId)
      THEN PermissionError("INVALID_OPERATION") @@ [groups |-> groups]
      ELSE Returns(TRUE) @@
           [groups |-> [groups EXCEPT ![groupIndex].members = Append(@, userId)]]

addUserToGroup(userId, groupId) ==
  \E outcome \in {addUserToGroupOutcome(userId, groupId)} :
    /\ ~isError(outcome)
    /\ groups' = outcome.groups
    /\ UNCHANGED <<users, permissions, now, uuidCount, held, inProgress, folderVars, tagVars, uploadVars>>

\* removeUserFromGroup without the check of lines 172-177 and without the
\* try and catch around its body: with no group of the id, groups[-1] is
\* undefined, reading its members throws a TypeError and nothing catches it.
removeUserFromGroupOutcomeUncaught(userId, groupId) ==
  LET groupIndex == groupIndexById(groupId)
      memberIndex == indexOf(groups[groupIndex].members, userId)
  IN  IF groupIndex = 0
      THEN [error |-> "TypeError", result |-> FALSE, groups |-> groups]
      ELSE IF memberIndex = 0
      THEN PermissionError("NOT_FOUND") @@ [groups |-> groups]
      ELSE Returns(TRUE) @@
           [groups |-> [groups EXCEPT ![groupIndex].members = splice1(@, memberIndex)]]

\* removeUserFromGroup removing the group with its last member.
removeUserFromGroupOutcomeDropsEmptyGroup(userId, groupId) ==
  LET groupIndex == groupIndexById(groupId)
      memberIndex == indexOf(groups[groupIndex].members, userId)
  IN  IF groupIndex = 0
      THEN PermissionError("NOT_FOUND") @@ [groups |-> groups]
      ELSE IF memberIndex = 0
      THEN PermissionError("NOT_FOUND") @@ [groups |-> groups]
      ELSE IF Len(groups[groupIndex].members) = 1
      THEN Returns(TRUE) @@ [groups |-> splice1(groups, groupIndex)]
      ELSE Returns(TRUE) @@
           [groups |-> [groups EXCEPT ![groupIndex].members = splice1(@, memberIndex)]]

\* removeUserFromGroup removing the first member of the group instead of
\* the member it found.
removeUserFromGroupOutcomeFirstMember(userId, groupId) ==
  LET groupIndex == groupIndexById(groupId)
      memberIndex == indexOf(groups[groupIndex].members, userId)
  IN  IF groupIndex = 0
      THEN PermissionError("NOT_FOUND") @@ [groups |-> groups]
      ELSE IF memberIndex = 0
      THEN PermissionError("NOT_FOUND") @@ [groups |-> groups]
      ELSE Returns(TRUE) @@
           [groups |-> [groups EXCEPT ![groupIndex].members = splice1(@, 1)]]

removeUserFromGroupOutcome(userId, groupId) ==
  LET groupIndex == groupIndexById(groupId)
      memberIndex == indexOf(groups[groupIndex].members, userId)
  IN  IF groupIndex = 0
      THEN PermissionError("NOT_FOUND") @@ [groups |-> groups]
      ELSE IF memberIndex = 0
      THEN PermissionError("NOT_FOUND") @@ [groups |-> groups]
      ELSE Returns(TRUE) @@
           [groups |-> [groups EXCEPT ![groupIndex].members = splice1(@, memberIndex)]]

removeUserFromGroup(userId, groupId) ==
  \E outcome \in {removeUserFromGroupOutcome(userId, groupId)} :
    /\ ~isError(outcome)
    /\ groups' = outcome.groups
    /\ UNCHANGED <<users, permissions, now, uuidCount, held, inProgress, folderVars, tagVars, uploadVars>>

\* grantPermission recording the caller of an update as grantedBy.
grantPermissionOutcomeRecordsCaller(documentId, granteeId, granteeType, level, grantedBy, date1, date2) ==
  LET existing == existingPermissionIndex(documentId, granteeId, granteeType)
  IN  IF ~granteeExists(granteeId, granteeType)
      THEN PermissionError("NOT_FOUND") @@
           [permissions |-> permissions, uuids |-> uuidCount, clock |-> now]
      ELSE IF existing # 0
      THEN LET updated == [permissions EXCEPT ![existing].level = level,
                                              ![existing].grantedBy = grantedBy,
                                              ![existing].updatedAt = date1]
           IN  Returns(updated[existing]) @@
               [permissions |-> updated, uuids |-> uuidCount, clock |-> date1]
      ELSE LET newPermission == [id |-> uuidv4("permission", uuidCount + 1),
                                 documentId |-> documentId,
                                 granteeId |-> granteeId,
                                 granteeType |-> granteeType,
                                 level |-> level,
                                 grantedBy |-> grantedBy,
                                 grantedAt |-> date1,
                                 updatedAt |-> date2]
           IN  Returns(newPermission) @@
               [permissions |-> Append(permissions, newPermission),
                uuids |-> uuidCount + 1, clock |-> date2]

\* grantPermission refusing a grantedBy that is the id of no stored user.
grantPermissionOutcomeKnownCaller(documentId, granteeId, granteeType, level, grantedBy, date1, date2) ==
  LET existing == existingPermissionIndex(documentId, granteeId, granteeType)
  IN  IF userIndexById(grantedBy) = 0
      THEN PermissionError("UNAUTHORIZED") @@
           [permissions |-> permissions, uuids |-> uuidCount, clock |-> now]
      ELSE IF ~granteeExists(granteeId, granteeType)
      THEN PermissionError("NOT_FOUND") @@
           [permissions |-> permissions, uuids |-> uuidCount, clock |-> now]
      ELSE IF existing # 0
      THEN LET updated == [permissions EXCEPT ![existing].level = level,
                                              ![existing].updatedAt = date1]
           IN  Returns(updated[existing]) @@
               [permissions |-> updated, uuids |-> uuidCount, clock |-> date1]
      ELSE LET newPermission == [id |-> uuidv4("permission", uuidCount + 1),
                                 documentId |-> documentId,
                                 granteeId |-> granteeId,
                                 granteeType |-> granteeType,
                                 level |-> level,
                                 grantedBy |-> grantedBy,
                                 grantedAt |-> date1,
                                 updatedAt |-> date2]
           IN  Returns(newPermission) @@
               [permissions |-> Append(permissions, newPermission),
                uuids |-> uuidCount + 1, clock |-> date2]

\* grantPermission updating the level of an existing Permission and leaving
\* its updatedAt as it was.
grantPermissionOutcomeLevelOnly(documentId, granteeId, granteeType, level, grantedBy, date1, date2) ==
  LET existing == existingPermissionIndex(documentId, granteeId, granteeType)
  IN  IF ~granteeExists(granteeId, granteeType)
      THEN PermissionError("NOT_FOUND") @@
           [permissions |-> permissions, uuids |-> uuidCount, clock |-> now]
      ELSE IF existing # 0
      THEN LET updated == [permissions EXCEPT ![existing].level = level]
           IN  Returns(updated[existing]) @@
               [permissions |-> updated, uuids |-> uuidCount, clock |-> now]
      ELSE LET newPermission == [id |-> uuidv4("permission", uuidCount + 1),
                                 documentId |-> documentId,
                                 granteeId |-> granteeId,
                                 granteeType |-> granteeType,
                                 level |-> level,
                                 grantedBy |-> grantedBy,
                                 grantedAt |-> date1,
                                 updatedAt |-> date2]
           IN  Returns(newPermission) @@
               [permissions |-> Append(permissions, newPermission),
                uuids |-> uuidCount + 1, clock |-> date2]

\* `date1` and `date2` are the readings of the first and the second
\* `new Date()` of the call, in evaluation order: an update reads the clock
\* once, a new Permission twice (grantedAt, then updatedAt). `uuids` is the
\* number of Permission ids uuidv4() has handed out, `clock` the last
\* reading of the clock.
grantPermissionOutcome(documentId, granteeId, granteeType, level, grantedBy, date1, date2) ==
  LET existing == existingPermissionIndex(documentId, granteeId, granteeType)
  IN  IF ~granteeExists(granteeId, granteeType)
      THEN PermissionError("NOT_FOUND") @@
           [permissions |-> permissions, uuids |-> uuidCount, clock |-> now]
      ELSE IF existing # 0
      THEN LET updated == [permissions EXCEPT ![existing].level = level,
                                              ![existing].updatedAt = date1]
           IN  Returns(updated[existing]) @@
               [permissions |-> updated, uuids |-> uuidCount, clock |-> date1]
      ELSE LET newPermission == [id |-> uuidv4("permission", uuidCount + 1),
                                 documentId |-> documentId,
                                 granteeId |-> granteeId,
                                 granteeType |-> granteeType,
                                 level |-> level,
                                 grantedBy |-> grantedBy,
                                 grantedAt |-> date1,
                                 updatedAt |-> date2]
           IN  Returns(newPermission) @@
               [permissions |-> Append(permissions, newPermission),
                uuids |-> uuidCount + 1, clock |-> date2]

grantPermission(documentId, granteeId, granteeType, level, grantedBy, date1, date2) ==
  \E outcome \in {grantPermissionOutcome(documentId, granteeId, granteeType, level,
                                         grantedBy, date1, date2)} :
    /\ ~isError(outcome)
    /\ date1 = now
    /\ date2 >= date1
    /\ date2 <= MaxTime
    /\ outcome.uuids <= MaxPermissionIds
    /\ permissions' = outcome.permissions
    /\ uuidCount' = outcome.uuids
    /\ now' = outcome.clock
    /\ UNCHANGED <<users, groups, held, inProgress, folderVars, tagVars, uploadVars>>

\* revokePermission removing the last Permission of the array instead of the
\* one it found.
revokePermissionOutcomeLast(documentId, granteeId, granteeType) ==
  LET permissionIndex == existingPermissionIndex(documentId, granteeId, granteeType)
  IN  IF permissionIndex = 0
      THEN PermissionError("NOT_FOUND") @@ [permissions |-> permissions]
      ELSE Returns(TRUE) @@ [permissions |-> splice1(permissions, Len(permissions))]

revokePermissionOutcome(documentId, granteeId, granteeType) ==
  LET permissionIndex == existingPermissionIndex(documentId, granteeId, granteeType)
  IN  IF permissionIndex = 0
      THEN PermissionError("NOT_FOUND") @@ [permissions |-> permissions]
      ELSE Returns(TRUE) @@ [permissions |-> splice1(permissions, permissionIndex)]

revokePermission(documentId, granteeId, granteeType) ==
  \E outcome \in {revokePermissionOutcome(documentId, granteeId, granteeType)} :
    /\ ~isError(outcome)
    /\ permissions' = outcome.permissions
    /\ UNCHANGED <<users, groups, now, uuidCount, held, inProgress, folderVars, tagVars, uploadVars>>

\* 'Admin' and 'admin@example.com': neither holds white space and the email
\* holds no upper-case letter, so each is written as one unit of text that
\* trim() and toLowerCase() leave as it is.
AdminName == <<"Admin">>

AdminEmail == <<"admin@example.com">>

\* 'Root', the name of the folder initializeFolders creates and the one
\* breadcrumb of no folder: one unit of text as well.
RootName == <<"Root">>

initializePermissions ==
  /\ Len(users) = 0
  /\ createUser(AdminName, AdminEmail, "admin")

\* The clock `new Date()` reads moves on between calls.
Tick ==
  /\ now < MaxTime
  /\ now' = now + 1
  /\ UNCHANGED <<users, groups, permissions, uuidCount, held, inProgress, folderVars, tagVars, uploadVars>>

(***************************************************************************)
(* getAllUsers and getAllGroups return the module's array: the value       *)
(* returned is a reference to the array the operations push onto, not a    *)
(* list of its own. `held` is what a caller keeps of each return value     *)
(* (the component keeps them as allUsers and allGroups).                   *)
(***************************************************************************)
Reference(array) == [ref |-> array]

\* What a holder of `list` finds in it now.
Contents(list) ==
  IF list = Undefined THEN <<>>
  ELSE IF list.ref = "users" THEN users
  ELSE groups

getAllUsers ==
  /\ held' = [held EXCEPT !.users = Reference("users")]
  /\ UNCHANGED <<users, groups, permissions, now, uuidCount, inProgress, folderVars, tagVars, uploadVars>>

getAllGroups ==
  /\ held' = [held EXCEPT !.groups = Reference("groups")]
  /\ UNCHANGED <<users, groups, permissions, now, uuidCount, inProgress, folderVars, tagVars, uploadVars>>

Reverse(seq) == [i \in 1..Len(seq) |-> seq[Len(seq) + 1 - i]]

\* The holder of a returned list reorders it in place
\* (Array.prototype.reverse): the array written is the array referred to.
reverseReturned(which) ==
  /\ held[which] # Undefined
  /\ users' = IF held[which].ref = "users" THEN Reverse(users) ELSE users
  /\ groups' = IF held[which].ref = "groups" THEN Reverse(groups) ELSE groups
  /\ UNCHANGED <<permissions, now, uuidCount, held, inProgress, folderVars, tagVars, uploadVars>>

(***************************************************************************)
(* grantPermission line by line. The exported functions are synchronous:   *)
(* none awaits, none hands a callback on, and the handlers that call them  *)
(* run one after the other, each to its return. `inProgress` holds the     *)
(* calls of grantPermission that have been entered and have not returned,  *)
(* each with the line it executes next and the Permission object its       *)
(* lookup found (the object as it was found: its id says which one it is). *)
(***************************************************************************)
\* A caller that enters a call while another is in progress.
callStackAny == TRUE

\* A caller that enters a call while one other at most is in progress.
callStackBelowTwo == Cardinality(inProgress) < 2

callStackEmpty == inProgress = {}

\* Lines 207-227: the grantee is validated and the tuple looked up.
grantPermissionEnter(documentId, granteeId, granteeType, level, grantedBy) ==
  /\ callStackEmpty
  /\ granteeExists(granteeId, granteeType)
  /\ LET existing == existingPermissionIndex(documentId, granteeId, granteeType)
     IN  /\ existing = 0 => uuidCount < MaxPermissionIds
         /\ inProgress' = inProgress \cup
              {[documentId |-> documentId,
                granteeId |-> granteeId,
                granteeType |-> granteeType,
                level |-> level,
                grantedBy |-> grantedBy,
                existingPermission |->
                  IF existing = 0 THEN Undefined ELSE permissions[existing],
                line |-> IF existing = 0 THEN 235 ELSE 229]}
  /\ UNCHANGED <<users, groups, permissions, now, uuidCount, held, folderVars, tagVars, uploadVars>>

\* The permissions after `value` is assigned to the field `field` of the
\* object `permission` refers to; an object that is in the array no more is
\* written outside it.
WithObject(permission, field, value) ==
  [i \in 1..Len(permissions) |->
     IF permissions[i].id = permission.id
     THEN [permissions[i] EXCEPT ![field] = value]
     ELSE permissions[i]]

\* Line 229: existingPermission.level = level.
grantPermissionLine229(call) ==
  /\ call \in inProgress
  /\ call.line = 229
  /\ permissions' = WithObject(call.existingPermission, "level", call.level)
  /\ inProgress' = (inProgress \ {call}) \cup {[call EXCEPT !.line = 230]}
  /\ UNCHANGED <<users, groups, now, uuidCount, held, folderVars, tagVars, uploadVars>>

\* Lines 230-231: existingPermission.updatedAt = new Date(), and the return.
grantPermissionLine230(call) ==
  /\ call \in inProgress
  /\ call.line = 230
  /\ permissions' = WithObject(call.existingPermission, "updatedAt", now)
  /\ inProgress' = inProgress \ {call}
  /\ UNCHANGED <<users, groups, now, uuidCount, held, folderVars, tagVars, uploadVars>>

\* Lines 235-247: the new Permission is built and pushed, and the return.
grantPermissionLine235(call) ==
  /\ call \in inProgress
  /\ call.line = 235
  /\ permissions' = Append(permissions,
                           [id |-> uuidv4("permission", uuidCount + 1),
                            documentId |-> call.documentId,
                            granteeId |-> call.granteeId,
                            granteeType |-> call.granteeType,
                            level |-> call.level,
                            grantedBy |-> call.grantedBy,
                            grantedAt |-> now,
                            updatedAt |-> now])
  /\ uuidCount' = uuidCount + 1
  /\ inProgress' = inProgress \ {call}
  /\ UNCHANGED <<users, groups, now, held, folderVars, tagVars, uploadVars>>

(***************************************************************************)
(* Inputs. Every specification runs every operation; they differ in the    *)
(* argument values the callers draw from.                                  *)
(***************************************************************************)
Roles == {"user", "admin"}

Documents == {"d1", "d2"}

GranteeTypes == {"user", "group"}

\* Ids a caller may pass: those uuidv4() can have given to a user or a
\* group, and the session id, which is the id of no stored principal.
Ids ==
  {uuidv4("user", i) : i \in 1..MaxUsers}
    \cup {uuidv4("group", i) : i \in 1..MaxGroups}
    \cup {SessionUserId}

\* Values passed as grantedBy: the session's user id and a user's id.
Callers == {SessionUserId, uuidv4("user", 1)}

Calls(in) ==
  \/ \E name \in in.names, email \in in.emails, role \in in.roles :
       createUser(name, email, role)
  \/ \E name \in in.groupNames : createGroup(name, <<>>)
  \/ \E userId \in Ids, groupId \in Ids : addUserToGroup(userId, groupId)
  \/ \E userId \in Ids, groupId \in Ids : removeUserFromGroup(userId, groupId)
  \/ \E documentId \in in.documents, granteeId \in Ids, granteeType \in GranteeTypes,
        level \in PermissionLevel, grantedBy \in in.callers,
        date2 \in now..(now + in.drift) :
       grantPermission(documentId, granteeId, granteeType, level, grantedBy, now, date2)
  \/ \E documentId \in in.documents, granteeId \in Ids, granteeType \in GranteeTypes :
       revokePermission(documentId, granteeId, granteeType)
  \/ initializePermissions

Init ==
  /\ users = <<>>
  /\ groups = <<>>
  /\ permissions = <<>>
  /\ now = 0
  /\ uuidCount = 0
  /\ held = [users |-> Undefined, groups |-> Undefined]
  /\ inProgress = {}
  /\ folders = <<>>
  /\ folderCount = 0
  /\ tags = <<>>
  /\ documentTags = <<>>
  /\ tagCount = 0
  /\ file = Null
  /\ metadata = [title |-> <<>>]
  /\ uploadProgress = 0
  /\ selectedFolderId = Null
  /\ documents = <<>>
  /\ uploads = {}
  /\ uploadCount = 0

\* The authorization core: two documents, all four levels, users and groups
\* with well-formed names, all calls within one reading of the clock.
CoreInputs ==
  [names |-> {AdminName},
   emails |-> {AdminEmail, <<"b">>},
   roles |-> Roles,
   groupNames |-> {<<"e">>, <<"f">>},
   documents |-> Documents,
   callers |-> {SessionUserId},
   drift |-> 0]

Next == Calls(CoreInputs)

Spec == Init /\ [][Next]_vars

\* The timestamps: one document, one user and one group, a clock that moves
\* on between calls and between the two readings of one call, and two
\* values of grantedBy.
ClockInputs ==
  [names |-> {AdminName},
   emails |-> {AdminEmail},
   roles |-> {"user"},
   groupNames |-> {<<"e">>},
   documents |-> {"d1"},
   callers |-> Callers,
   drift |-> 1]

NextClock == Calls(ClockInputs) \/ Tick

SpecClock == Init /\ [][NextClock]_vars

\* The texts: names and emails with upper case, with white space around
\* them, and blank; one document.
TextInputs ==
  [names |-> {<<"n">>, <<" ">>},
   emails |-> {<<"a">>, <<"A">>, <<" ", "a">>, <<"b">>, <<" ">>, <<>>},
   roles |-> {"user"},
   groupNames |-> {<<"e">>, <<"E">>, <<"e", " ">>, <<"f">>, <<" ">>},
   documents |-> {"d1"},
   callers |-> {SessionUserId},
   drift |-> 0]

NextText == Calls(TextInputs)

SpecText == Init /\ [][NextText]_vars

\* The lists: two users and two groups, one document, and a caller that
\* keeps what getAllUsers and getAllGroups return and reorders it.
ListInputs ==
  [names |-> {AdminName},
   emails |-> {AdminEmail, <<"b">>},
   roles |-> {"user"},
   groupNames |-> {<<"e">>, <<"f">>},
   documents |-> {"d1"},
   callers |-> {SessionUserId},
   drift |-> 0]

NextLists ==
  \/ Calls(ListInputs)
  \/ getAllUsers
  \/ getAllGroups
  \/ \E which \in {"users", "groups"} : reverseReturned(which)

SpecLists == Init /\ [][NextLists]_vars

\* The calls line by line: one user, one group and one document, a clock
\* that moves on at any moment, and grantPermission entered and run to its
\* return before the next call is entered.
StepInputs ==
  [names |-> {AdminName},
   emails |-> {AdminEmail},
   roles |-> {"user"},
   groupNames |-> {<<"e">>},
   documents |-> {"d1"},
   callers |-> {SessionUserId},
   drift |-> 0]

NextSteps ==
  \/ callStackEmpty /\ Calls(StepInputs)
  \/ \E documentId \in StepInputs.documents, granteeId \in Ids,
        granteeType \in GranteeTypes, level \in PermissionLevel,
        grantedBy \in StepInputs.callers :
       grantPermissionEnter(documentId, granteeId, granteeType, level, grantedBy)
  \/ \E call \in inProgress : grantPermissionLine229(call)
  \/ \E call \in inProgress : grantPermissionLine230(call)
  \/ \E call \in inProgress : grantPermissionLine235(call)
  \/ Tick

SpecSteps == Init /\ [][NextSteps]_vars

(***************************************************************************)
(* folderManagement.ts: the folders array. A folder is its id, its name,   *)
(* the id of its parent (null for a folder at the root) and its path, the  *)
(* names written down when the folder was created or last moved. The       *)
(* createdAt and updatedAt of a folder are left out: no function reads     *)
(* them.                                                                   *)
(***************************************************************************)
FolderError(type) == [error |-> type, result |-> FALSE]

folderIndexById(id) ==
  FirstIndex({i \in 1..Len(folders) : folders[i].id = id})

\* `input.parentId || null`.
orNull(parentId) == IF parentId = UndefinedId THEN Null ELSE parentId

\* `a ?? b` for an id.
nullish(a, b) == IF a = UndefinedId \/ a = Null THEN b ELSE a

createFolderOutcome(name, parentId) ==
  LET existingFolder ==
        FirstIndex({i \in 1..Len(folders) :
                      /\ toLowerCase(folders[i].name) = toLowerCase(name)
                      /\ folders[i].parentId = orNull(parentId)})
      parentFolder == folderIndexById(parentId)
      path == IF orNull(parentId) = Null THEN <<>>
              ELSE Append(folders[parentFolder].path, folders[parentFolder].name)
  IN  IF trim(name) = <<>>
      THEN FolderError("VALIDATION_ERROR") @@ [folders |-> folders]
      ELSE IF existingFolder # 0
      THEN FolderError("DUPLICATE_NAME") @@ [folders |-> folders]
      ELSE IF orNull(parentId) # Null /\ parentFolder = 0
      THEN FolderError("NOT_FOUND") @@ [folders |-> folders]
      ELSE LET newFolder == [id |-> uuidv4("folder", folderCount + 1),
                             name |-> trim(name),
                             parentId |-> orNull(parentId),
                             path |-> path]
           IN  Returns(newFolder) @@ [folders |-> Append(folders, newFolder)]

createFolder(name, parentId) ==
  \E outcome \in {createFolderOutcome(name, parentId)} :
    /\ ~isError(outcome)
    /\ folderCount < MaxFolderIds
    /\ Len(outcome.result.path) <= MaxPathLen
    /\ folders' = outcome.folders
    /\ folderCount' = folderCount + 1
    /\ UNCHANGED <<permissionVars, tagVars, uploadVars>>

\* `hasName` says whether the input has a name; without one, input.name
\* is undefined and `name` is not read. An input without a parentId has
\* the parentId undefined.
updateFolderOutcome(id, hasName, name, parentId) ==
  LET folderIndex == folderIndexById(id)
      folder == folders[folderIndex]
      existingFolder ==
        FirstIndex({i \in 1..Len(folders) :
                      /\ toLowerCase(folders[i].name) = toLowerCase(name)
                      /\ folders[i].parentId = nullish(parentId, folder.parentId)
                      /\ folders[i].id # folder.id})
      parentFolder == folderIndexById(parentId)
      parentChanged == parentId # UndefinedId /\ parentId # folder.parentId
      updatedFolder ==
        [id |-> folder.id,
         name |-> IF hasName THEN name ELSE folder.name,
         parentId |-> nullish(parentId, folder.parentId),
         path |-> IF ~parentChanged THEN folder.path
                  ELSE IF parentId = Null THEN <<>>
                  ELSE Append(folders[parentFolder].path, folders[parentFolder].name)]
  IN  IF folderIndex = 0
      THEN FolderError("NOT_FOUND") @@ [folders |-> folders]
      ELSE IF hasName /\ name # folder.name /\ existingFolder # 0
      THEN FolderError("DUPLICATE_NAME") @@ [folders |-> folders]
      ELSE IF parentChanged /\ parentId # Null /\ parentFolder = 0
      THEN FolderError("NOT_FOUND") @@ [folders |-> folders]
      ELSE Returns(updatedFolder) @@
           [folders |-> [folders EXCEPT ![folderIndex] = updatedFolder]]

updateFolder(id, hasName, name, parentId) ==
  \E outcome \in {updateFolderOutcome(id, hasName, name, parentId)} :
    /\ ~isError(outcome)
    /\ Len(outcome.result.path) <= MaxPathLen
    /\ folders' = outcome.folders
    /\ UNCHANGED <<folderCount, permissionVars, tagVars, uploadVars>>

deleteFolderOutcome(folderId) ==
  IF folderIndexById(folderId) = 0
  THEN FolderError("NOT_FOUND") @@ [folders |-> folders]
  ELSE IF \E i \in 1..Len(folders) : folders[i].parentId = folderId
  THEN FolderError("INVALID_OPERATION") @@ [folders |-> folders]
  ELSE Returns(TRUE) @@
       [folders |-> SelectSeq(folders, LAMBDA f : f.id # folderId)]

deleteFolder(folderId) ==
  \E outcome \in {deleteFolderOutcome(folderId)} :
    /\ ~isError(outcome)
    /\ folders' = outcome.folders
    /\ UNCHANGED <<folderCount, permissionVars, tagVars, uploadVars>>

\* The loop of lines 211-217 and 239-245, from currentId with `path`
\* collected so far: the path it ends with, or that it does not end. The
\* folders do not change while it runs, so a walk that has collected more
\* folders than there are has come back to a folder it has been at and
\* will come back to it for ever.
RECURSIVE walkToRoot(_, _)
walkToRoot(currentId, path) ==
  IF currentId = Null \/ folderIndexById(currentId) = 0
  THEN [diverges |-> FALSE, path |-> path]
  ELSE IF Len(path) > Len(folders)
  THEN [diverges |-> TRUE, path |-> path]
  ELSE walkToRoot(folders[folderIndexById(currentId)].parentId,
                  <<folders[folderIndexById(currentId)]>> \o path)

\* `diverges` says that the call does not return.
getFolderPath(folderId) ==
  IF folderIndexById(folderId) = 0
  THEN FolderError("NOT_FOUND") @@ [diverges |-> FALSE]
  ELSE LET walk == walkToRoot(folderId, <<>>)
       IN  Returns(walk.path) @@ [diverges |-> walk.diverges]

getBreadcrumbPath(folderId) ==
  IF folderId = Null THEN Returns(<<RootName>>) @@ [diverges |-> FALSE]
  ELSE IF folderIndexById(folderId) = 0
  THEN FolderError("NOT_FOUND") @@ [diverges |-> FALSE]
  ELSE LET walk == walkToRoot(folderId, <<>>)
       IN  Returns([i \in 1..Len(walk.path) |-> walk.path[i].name]) @@
           [diverges |-> walk.diverges]

initializeFolders ==
  /\ Len(folders) = 0
  /\ createFolder(RootName, Null)

\* The names and the parents the callers give: a name, the same name with
\* white space after it, another name; no parent, null, and the ids
\* uuidv4() can have given to a folder.
FolderNames == {<<"a">>, <<"a", " ">>, <<"b">>}

FolderIds == {uuidv4("folder", i) : i \in 1..MaxFolderIds}

NextFolders ==
  \/ \E name \in FolderNames, parentId \in {UndefinedId, Null} \cup FolderIds :
       createFolder(name, parentId)
  \/ \E id \in FolderIds, hasName \in BOOLEAN, name \in FolderNames,
        parentId \in {UndefinedId, Null} \cup FolderIds :
       updateFolder(id, hasName, name, parentId)
  \/ \E folderId \in FolderIds : deleteFolder(folderId)
  \/ initializeFolders

SpecFolders == Init /\ [][NextFolders]_vars

(***************************************************************************)
(* FileUpload: the form (file, metadata.title, uploadProgress), the folder *)
(* selected in AppProvider and its documents. handleUpload is async: it    *)
(* runs to its first await, and goes on when the timer of 200 ms fires.    *)
(* A run keeps the title and the folder of the render it was started in.   *)
(* A file is set only when validateFile accepts it, and validateFile gives *)
(* the same answer when handleUpload asks again.                           *)
(***************************************************************************)
SelectedFile == <<"file", 1>>

\* The title handleFileChange fills in: the name of the file without its
\* extension.
FileTitle == <<"t">>

handleFileChange ==
  /\ file' = SelectedFile
  /\ metadata' = [metadata EXCEPT !.title = FileTitle]
  /\ UNCHANGED <<uploadProgress, selectedFolderId, documents, uploads, uploadCount,
                 permissionVars, folderVars, tagVars>>

\* The title field of the form is edited.
setMetadataTitle(title) ==
  /\ metadata' = [metadata EXCEPT !.title = title]
  /\ UNCHANGED <<file, uploadProgress, selectedFolderId, documents, uploads,
                 uploadCount, permissionVars, folderVars, tagVars>>

\* A folder of the dropdown, or none, is selected.
setSelectedFolderId(folderId) ==
  /\ folderId = Null \/ folderIndexById(folderId) # 0
  /\ selectedFolderId' = folderId
  /\ UNCHANGED <<file, metadata, uploadProgress, documents, uploads, uploadCount,
                 permissionVars, folderVars, tagVars>>

\* The disabled attribute of the Upload button.
UploadButtonDisabled ==
  file = Null \/ uploadProgress > 0 \/ selectedFolderId = Null

\* A click on the Upload button: handleUpload from its first line to its
\* first await, in the first round of its loop (i = 0).
handleUpload ==
  /\ ~UploadButtonDisabled
  /\ file # Null
  /\ trim(metadata.title) # <<>>
  /\ uploadCount < MaxUploads
  /\ uploadProgress' = 0
  /\ uploads' = uploads \cup {[run |-> uploadCount + 1,
                               i |-> 0,
                               title |-> metadata.title,
                               folderId |-> selectedFolderId]}
  /\ uploadCount' = uploadCount + 1
  /\ UNCHANGED <<file, metadata, selectedFolderId, documents,
                 permissionVars, folderVars, tagVars>>

\* The timer of a run fires and the loop goes into its next round:
\* i += 10, i <= 100, setUploadProgress(i), and the next await.
handleUploadStep(upload) ==
  /\ upload \in uploads
  /\ upload.i + 10 <= 100
  /\ uploadProgress' = upload.i + 10
  /\ uploads' = (uploads \ {upload}) \cup {[upload EXCEPT !.i = upload.i + 10]}
  /\ UNCHANGED <<file, metadata, selectedFolderId, documents, uploadCount,
                 permissionVars, folderVars, tagVars>>

\* The timer of a run fires after the last round: addDocument, and the
\* form is reset.
handleUploadFinish(upload) ==
  /\ upload \in uploads
  /\ upload.i + 10 > 100
  /\ documents' = Append(documents, [id |-> uuidv4("document", Len(documents) + 1),
                                     title |-> upload.title,
                                     folderId |-> upload.folderId])
  /\ file' = Null
  /\ metadata' = [metadata EXCEPT !.title = <<>>]
  /\ uploadProgress' = 0
  /\ uploads' = uploads \ {upload}
  /\ UNCHANGED <<selectedFolderId, uploadCount, permissionVars, folderVars, tagVars>>

NextUpload ==
  \/ initializeFolders
  \/ handleFileChange
  \/ \E title \in {FileTitle, <<" ">>} : setMetadataTitle(title)
  \/ \E folderId \in {Null} \cup FolderIds : setSelectedFolderId(folderId)
  \/ handleUpload
  \/ \E upload \in uploads : handleUploadStep(upload)
  \/ \E upload \in uploads : handleUploadFinish(upload)

SpecUpload == Init /\ [][NextUpload]_vars

(***************************************************************************)
(* tagManagement: the arrays `tags` and `documentTags`. A tag is modelled  *)
(* by its id and its name; color, createdAt and updatedAt are written but  *)
(* never read by these functions and are left out.                         *)
(***************************************************************************)
TagError(type) == [error |-> type, result |-> FALSE]

tagIndexById(id) == FirstIndex({i \in 1..Len(tags) : tags[i].id = id})

createTagOutcome(name) ==
  LET existingTag ==
        FirstIndex({i \in 1..Len(tags) :
                      toLowerCase(tags[i].name) = toLowerCase(name)})
  IN  IF trim(name) = <<>>
      THEN TagError("VALIDATION_ERROR") @@ [tags |-> tags]
      ELSE IF existingTag # 0
      THEN TagError("DUPLICATE_NAME") @@ [tags |-> tags]
      ELSE LET newTag == [id |-> uuidv4("tag", tagCount + 1), name |-> trim(name)]
           IN  Returns(newTag) @@ [tags |-> Append(tags, newTag)]

createTag(name) ==
  \E outcome \in {createTagOutcome(name)} :
    /\ ~isError(outcome)
    /\ tagCount < MaxTagIds
    /\ tags' = outcome.tags
    /\ tagCount' = tagCount + 1
    /\ UNCHANGED <<documentTags, permissionVars, folderVars, uploadVars>>

updateTagOutcome(id, name) ==
  LET tagIndex == tagIndexById(id)
      existingTag ==
        FirstIndex({i \in 1..Len(tags) :
                      toLowerCase(tags[i].name) = toLowerCase(name)})
  IN  IF tagIndex = 0
      THEN TagError("NOT_FOUND") @@ [tags |-> tags]
      ELSE IF name # tags[tagIndex].name /\ existingTag # 0
      THEN TagError("DUPLICATE_NAME") @@ [tags |-> tags]
      ELSE LET updatedTag == [tags[tagIndex] EXCEPT !.name = trim(name)]
           IN  Returns(updatedTag) @@ [tags |-> [tags EXCEPT ![tagIndex] = updatedTag]]

updateTag(id, name) ==
  \E outcome \in {updateTagOutcome(id, name)} :
    /\ ~isError(outcome)
    /\ tags' = outcome.tags
    /\ UNCHANGED <<documentTags, tagCount, permissionVars, folderVars, uploadVars>>

\* deleteTag that leaves the associations of the tag in documentTags.
deleteTagOutcomeNoCascade(id) ==
  IF FirstIndex({i \in 1..Len(tags) : tags[i].id = id}) = 0
  THEN [error |-> "NOT_FOUND", result |-> FALSE, tags |-> tags,
        documentTags |-> documentTags]
  ELSE Returns(TRUE) @@
       [tags |-> SelectSeq(tags, LAMBDA t : t.id # id),
        documentTags |-> documentTags]

deleteTagOutcome(id) ==
  IF tagIndexById(id) = 0
  THEN TagError("NOT_FOUND") @@ [tags |-> tags, documentTags |-> documentTags]
  ELSE Returns(TRUE) @@
       [tags |-> SelectSeq(tags, LAMBDA t : t.id # id),
        documentTags |-> SelectSeq(documentTags, LAMBDA dt : dt.tagId # id)]

deleteTag(id) ==
  \E outcome \in {deleteTagOutcome(id)} :
    /\ ~isError(outcome)
    /\ tags' = outcome.tags
    /\ documentTags' = outcome.documentTags
    /\ UNCHANGED <<tagCount, permissionVars, folderVars, uploadVars>>

addTagToDocumentOutcome(documentId, tagId) ==
  LET existingTag ==
        FirstIndex({i \in 1..Len(documentTags) :
                      /\ documentTags[i].documentId = documentId
                      /\ documentTags[i].tagId = tagId})
  IN  IF tagIndexById(tagId) = 0
      THEN TagError("NOT_FOUND") @@ [documentTags |-> documentTags]
      ELSE IF existingTag # 0
      THEN TagError("DUPLICATE_NAME") @@ [documentTags |-> documentTags]
      ELSE Returns(TRUE) @@
           [documentTags |->
              Append(documentTags, [documentId |-> documentId, tagId |-> tagId])]

addTagToDocument(documentId, tagId) ==
  \E outcome \in {addTagToDocumentOutcome(documentId, tagId)} :
    /\ ~isError(outcome)
    /\ documentTags' = outcome.documentTags
    /\ UNCHANGED <<tags, tagCount, permissionVars, folderVars, uploadVars>>

removeTagFromDocumentOutcome(documentId, tagId) ==
  LET tagIndex ==
        FirstIndex({i \in 1..Len(documentTags) :
                      /\ documentTags[i].documentId = documentId
                      /\ documentTags[i].tagId = tagId})
  IN  IF tagIndex = 0
      THEN TagError("NOT_FOUND") @@ [documentTags |-> documentTags]
      ELSE Returns(TRUE) @@
           [documentTags |->
              SelectSeq(documentTags,
                        LAMBDA dt : ~(dt.documentId = documentId /\ dt.tagId = tagId))]

removeTagFromDocument(documentId, tagId) ==
  \E outcome \in {removeTagFromDocumentOutcome(documentId, tagId)} :
    /\ ~isError(outcome)
    /\ documentTags' = outcome.documentTags
    /\ UNCHANGED <<tags, tagCount, permissionVars, folderVars, uploadVars>>

getDocumentTags(documentId) ==
  LET documentTagIds ==
        {documentTags[i].tagId : i \in {j \in 1..Len(documentTags) :
                                          documentTags[j].documentId = documentId}}
  IN  SelectSeq(tags, LAMBDA tag : tag.id \in documentTagIds)

getDocumentsByTag(tagId) ==
  LET ofTag == SelectSeq(documentTags, LAMBDA dt : dt.tagId = tagId)
  IN  [i \in 1..Len(ofTag) |-> ofTag[i].documentId]

TagNames == {<<"a">>, <<"a", " ">>, <<"b">>}

TagIds == {uuidv4("tag", n) : n \in 1..MaxTagIds}

NextTags ==
  \/ \E name \in TagNames : createTag(name)
  \/ \E id \in TagIds, name \in TagNames : updateTag(id, name)
  \/ \E id \in TagIds : deleteTag(id)
  \/ \E documentId \in Documents, tagId \in TagIds : addTagToDocument(documentId, tagId)
  \/ \E documentId \in Documents, tagId \in TagIds :
       removeTagFromDocument(documentId, tagId)

SpecTags == Init /\ [][NextTags]_vars

(***************************************************************************)
(* The vocabulary of the properties: the stored principals, the order of   *)
(* the levels as the specification states it, and the grants that reach a  *)
(* user on a document (directly or through a group the user is in).        *)
(***************************************************************************)
StoredUsers == {users[i] : i \in 1..Len(users)}

StoredGroups == {groups[i] : i \in 1..Len(groups)}

StoredPermissions == {permissions[i] : i \in 1..Len(permissions)}

Admins == {u \in StoredUsers : u.role = "admin"}

NonAdmins == {u \in StoredUsers : u.role # "admin"}

Members(g) == {g.members[i] : i \in 1..Len(g.members)}

LevelRank(level) ==
  CASE level = "view" -> 1
    [] level = "edit" -> 2
    [] level = "download" -> 3
    [] level = "admin" -> 4

Reaches(p, userId) ==
  \/ (p.granteeType = "user" /\ p.granteeId = userId)
  \/ (p.granteeType = "group" /\
        \E g \in StoredGroups : g.id = p.granteeId /\ userId \in Members(g))

EffectiveSet(documentId, userId) ==
  {p \in StoredPermissions : p.documentId = documentId /\ Reaches(p, userId)}

SameTuple(p, documentId, granteeId, granteeType) ==
  /\ p.documentId = documentId
  /\ p.granteeId = granteeId
  /\ p.granteeType = granteeType

\* C1: checkPermission is true for every stored administrator, on every
\* document and at every level, whatever Permissions are recorded.
C1_AdminBypass ==
  \A u \in Admins : \A d \in Documents : \A l \in PermissionLevel :
    checkPermission(d, u.id, l)

\* An administrator is stored and no Permission at all is recorded.
C1_Witness == Admins # {} /\ permissions = <<>>

\* C2: the permissions array never holds two Permissions with the same
\* (documentId, granteeId, granteeType).
C2_OnePermissionPerTuple ==
  \A i, j \in 1..Len(permissions) :
    SameTuple(permissions[i], permissions[j].documentId, permissions[j].granteeId,
              permissions[j].granteeType) => i = j

\* Two Permissions stand on one document, one for a group that has a
\* member and one for a user.
C2_Witness ==
  /\ Len(permissions) = 2
  /\ permissions[1].documentId = permissions[2].documentId
  /\ permissions[1].granteeType # permissions[2].granteeType
  /\ \E g \in StoredGroups : g.members # <<>>

\* C3: for a stored user who is no administrator, checkPermission(D, u, L)
\* is true exactly when some grant reaches u on D and the highest level
\* among those grants, in the order view < edit < download < admin, is at
\* or above L.
C3_HighestReachingLevelDecides ==
  \A u \in NonAdmins : \A d \in Documents : \A l \in PermissionLevel :
    LET reaching == EffectiveSet(d, u.id)
        highest == CHOOSE p \in reaching :
                     \A q \in reaching : LevelRank(p.level) >= LevelRank(q.level)
    IN  checkPermission(d, u.id, l) <=>
          (reaching # {} /\ LevelRank(highest.level) >= LevelRank(l))

\* A user who is no administrator is reached on one document by a direct
\* grant and by a grant of higher level to a group of the user.
C3_Witness ==
  \E u \in NonAdmins : \E d \in Documents :
    \E p, q \in EffectiveSet(d, u.id) :
      /\ p.granteeType = "user"
      /\ q.granteeType = "group"
      /\ LevelRank(q.level) > LevelRank(p.level)

\* The one grant on D that reaches user u is a grant of `edit` to group g.
OnlyGroupEditReaches(u, g, d) ==
  /\ u.id \in Members(g)
  /\ \E p \in StoredPermissions : SameTuple(p, d, g.id, "group") /\ p.level = "edit"
  /\ \A p \in EffectiveSet(d, u.id) : SameTuple(p, d, g.id, "group")

\* C4: a member of a group whose grant of `edit` on D is the only grant
\* that reaches the member passes checkPermission at `edit` and fails it at
\* `admin`, unless the member is an administrator.
C4_GroupInheritance ==
  \A u \in NonAdmins : \A g \in StoredGroups : \A d \in Documents :
    OnlyGroupEditReaches(u, g, d) =>
      checkPermission(d, u.id, "edit") /\ ~checkPermission(d, u.id, "admin")

\* Such a member, group and document exist.
C4_Witness ==
  \E u \in NonAdmins : \E g \in StoredGroups : \E d \in Documents :
    OnlyGroupEditReaches(u, g, d)

StoredPrincipal(id, type) ==
  \/ (type = "user" /\ \E u \in StoredUsers : u.id = id)
  \/ (type = "group" /\ \E g \in StoredGroups : g.id = id)

MembersOf(groupId) == UNION {Members(g) : g \in {h \in StoredGroups : h.id = groupId}}

\* C5: a successful grantPermission(D, G, 'group', 'admin', by) leaves a
\* Permission of level admin for (D, G, group), and whenever that Permission
\* stands every member of G passes checkPermission on D at every level,
\* whatever other grants exist.
C5_GroupAdminGrantOpensEveryLevel ==
  /\ \A d \in Documents : \A g \in Ids : \A by \in Callers :
       LET outcome == grantPermissionOutcome(d, g, "group", "admin", by, now, now)
       IN  ~isError(outcome) =>
             /\ SameTuple(outcome.result, d, g, "group")
             /\ outcome.result.level = "admin"
             /\ \E i \in 1..Len(outcome.permissions) :
                  outcome.permissions[i] = outcome.result
  /\ \A p \in StoredPermissions :
       (p.granteeType = "group" /\ p.level = "admin") =>
         \A m \in MembersOf(p.granteeId) : \A l \in PermissionLevel :
           checkPermission(p.documentId, m, l)

\* A group holds a grant of admin on a document, and one of its members,
\* no administrator, holds a direct grant of a lower level on the same
\* document.
C5_Witness ==
  \E p, q \in StoredPermissions : \E u \in NonAdmins :
    /\ p.granteeType = "group" /\ p.level = "admin"
    /\ u.id \in MembersOf(p.granteeId)
    /\ SameTuple(q, p.documentId, u.id, "user")
    /\ q.level # "admin"

\* C6: a successful revokePermission(D, g, t) leaves checkPermission(D, u, L)
\* false at every level for every stored user u, no administrator, whom no
\* grant on D other than the revoked one reached.
C6_RevokeRemovesAccess ==
  [][Len(permissions') < Len(permissions) =>
       \A d \in Documents : \A g \in Ids : \A t \in GranteeTypes :
         revokePermission(d, g, t) =>
           \A u \in NonAdmins :
             (\A p \in EffectiveSet(d, u.id) : SameTuple(p, d, g, t)) =>
               \A l \in PermissionLevel : ~checkPermission(d, u.id, l)']_vars

\* Every Permission granted has been revoked, and a stored user who is no
\* administrator is a member of a group.
C6_Witness ==
  /\ uuidCount >= 1
  /\ permissions = <<>>
  /\ \E u \in NonAdmins : \E g \in StoredGroups : u.id \in Members(g)

\* C8: grantPermission returns NOT_FOUND and leaves the permissions as they
\* are whenever granteeId is not the id of a stored principal of the type
\* given.
C8_GrantToUnknownGranteeIsNotFound ==
  \A g \in Ids : \A t \in GranteeTypes :
    ~StoredPrincipal(g, t) =>
      \A d \in Documents : \A l \in PermissionLevel : \A by \in Callers :
        LET outcome == grantPermissionOutcome(d, g, t, l, by, now, now)
        IN  /\ outcome.error = "NOT_FOUND"
            /\ outcome.permissions = permissions
            /\ outcome.uuids = uuidCount
            /\ outcome.clock = now

\* A user and a group are stored (the id of each is no id of the other
\* type), a third id is the id of nothing, and a Permission is recorded.
C8_Witness ==
  /\ StoredUsers # {} /\ StoredGroups # {}
  /\ permissions # <<>>
  /\ \E g \in Ids : ~StoredPrincipal(g, "user") /\ ~StoredPrincipal(g, "group")

\* C9: when no Permission has the tuple (D, g, t), revokePermission(D, g, t)
\* returns NOT_FOUND and changes nothing; when one has, it returns true and
\* removes that Permission and no other, and users and groups stay as they
\* are.
C9_RevokeOutcome ==
  \A d \in Documents : \A g \in Ids : \A t \in GranteeTypes :
    LET outcome == revokePermissionOutcome(d, g, t)
        matching == {i \in 1..Len(permissions) : SameTuple(permissions[i], d, g, t)}
    IN  IF matching = {}
        THEN /\ outcome.error = "NOT_FOUND"
             /\ outcome.permissions = permissions
        ELSE /\ outcome.error = NoError
             /\ outcome.result = TRUE
             /\ \E i \in matching :
                  outcome.permissions =
                    [k \in 1..(Len(permissions) - 1) |->
                       IF k < i THEN permissions[k] ELSE permissions[k + 1]]

\* A revokePermission that returns true leaves one Permission fewer: only
\* such steps need to be looked at.
C9_RevokeFrame ==
  Len(permissions') < Len(permissions) =>
    \A d \in Documents : \A g \in Ids : \A t \in GranteeTypes :
      revokePermission(d, g, t) =>
        /\ permissions' = revokePermissionOutcome(d, g, t).permissions
        /\ users' = users
        /\ groups' = groups

C9_Revoke == []C9_RevokeOutcome /\ [][C9_RevokeFrame]_vars

\* Of two Permissions granted one has been revoked and the other, for a
\* user's id with type user, stands: revoking it with type group is the
\* case of no match, revoking it with type user the case of a match.
C9_Witness ==
  /\ Len(permissions) = 1
  /\ uuidCount = 2
  /\ permissions[1].granteeType = "user"

\* A grantPermission for the tuple of the stored Permission p, with a level
\* other than the one p has.
Regrant(p, level, by) ==
  /\ level # p.level
  /\ grantPermission(p.documentId, p.granteeId, p.granteeType, level, by, now, now)

\* After the step, exactly one Permission has p's tuple; it is q.
OnlyPermissionOfTuple(q, p) ==
  /\ SameTuple(q, p.documentId, p.granteeId, p.granteeType)
  /\ Cardinality({i \in 1..Len(permissions') :
                    SameTuple(permissions'[i], p.documentId, p.granteeId,
                              p.granteeType)}) = 1
  /\ \E i \in 1..Len(permissions') : permissions'[i] = q

\* C7 as the specification states it: a second grantPermission on a tuple,
\* with another level, leaves exactly one Permission for the tuple, with
\* the level of the second call and an updatedAt strictly later than the
\* grantedAt of the first call.
C7_RegrantUpdatedStrictlyLater ==
  [][\A i \in 1..Len(permissions) : \A level \in PermissionLevel : \A by \in Callers :
       Regrant(permissions[i], level, by) =>
         \E q \in {permissions'[k] : k \in 1..Len(permissions')} :
           /\ OnlyPermissionOfTuple(q, permissions[i])
           /\ q.level = level
           /\ q.grantedAt = permissions[i].grantedAt
           /\ q.updatedAt > q.grantedAt]_vars

\* C7, amended: the updatedAt of that Permission is the reading of the
\* clock at the second call, which is not earlier than the grantedAt of
\* the first call and equals it when the clock has not moved in between.
C7_RegrantUpdatedNotEarlier ==
  [][\A i \in 1..Len(permissions) : \A level \in PermissionLevel : \A by \in Callers :
       Regrant(permissions[i], level, by) =>
         \E q \in {permissions'[k] : k \in 1..Len(permissions')} :
           /\ OnlyPermissionOfTuple(q, permissions[i])
           /\ q.level = level
           /\ q.id = permissions[i].id
           /\ q.grantedAt = permissions[i].grantedAt
           /\ q.updatedAt = now
           /\ q.updatedAt >= q.grantedAt]_vars

\* A Permission whose updatedAt is two readings of the clock after its
\* grantedAt: a new Permission's two readings are at most one apart, so a
\* later grantPermission on its tuple has updated it; and another
\* Permission that no later call has touched.
C7_Witness ==
  \E p, q \in StoredPermissions :
    /\ p.updatedAt >= p.grantedAt + 2
    /\ q.updatedAt = q.grantedAt

\* C10: createUser returns its conflict error, INVALID_OPERATION, whenever
\* the email given, trimmed and in lower case, is the email of a stored
\* user; and no two stored users have the same email, every stored email
\* being trimmed and in lower case.
C10_EmailsUnique ==
  /\ \A name \in TextInputs.names : \A email \in TextInputs.emails :
     \A role \in TextInputs.roles :
       (/\ trim(name) # <<>>
        /\ \E u \in StoredUsers : u.email = trim(toLowerCase(email)))
         => createUserOutcome(name, email, role).error = "INVALID_OPERATION"
  /\ \A i, j \in 1..Len(users) : users[i].email = users[j].email => i = j
  /\ \A u \in StoredUsers : u.email = trim(toLowerCase(u.email))

\* C11 as the specification states it: createGroup returns its conflict
\* error, INVALID_OPERATION, whenever the name given equals, ignoring case,
\* the name of a stored group; and no two stored groups have names that are
\* equal ignoring case.
C11_GroupNamesUnique ==
  /\ \A name \in TextInputs.groupNames :
       (\E g \in StoredGroups : toLowerCase(g.name) = toLowerCase(name))
         => createGroupOutcome(name, <<>>).error = "INVALID_OPERATION"
  /\ \A i, j \in 1..Len(groups) :
       toLowerCase(groups[i].name) = toLowerCase(groups[j].name) => i = j

\* Every stored user has a name and an email that are not blank, every
\* stored group a name that is not blank.
NoBlankStored ==
  /\ \A u \in StoredUsers : trim(u.name) # <<>> /\ trim(u.email) # <<>>
  /\ \A g \in StoredGroups : trim(g.name) # <<>>

\* C12: createUser returns VALIDATION_ERROR when name or email is empty or
\* white space only, createGroup when name is; the array the call leaves
\* behind is the array it found, so that nothing blank is ever stored.
C12_BlankInputIsValidationError ==
  /\ \A name \in TextInputs.names : \A email \in TextInputs.emails :
     \A role \in TextInputs.roles :
       (trim(name) = <<>> \/ trim(email) = <<>>) =>
         LET outcome == createUserOutcome(name, email, role)
         IN  outcome.error = "VALIDATION_ERROR" /\ outcome.users = users
  /\ \A name \in TextInputs.groupNames :
       trim(name) = <<>> =>
         LET outcome == createGroupOutcome(name, <<>>)
         IN  outcome.error = "VALIDATION_ERROR" /\ outcome.groups = groups
  /\ NoBlankStored

\* A user, a group and a Permission are stored when the blank inputs are
\* given.
C12_Witness ==
  /\ Len(users) = 1 /\ Len(groups) = 1 /\ Len(permissions) = 1
  /\ \E name \in TextInputs.names : trim(name) = <<>>
  /\ \E email \in TextInputs.emails : trim(email) = <<>> /\ email # <<>>
  /\ \E name \in TextInputs.groupNames : trim(name) = <<>>

\* The groups as they are but for the members of the group of id groupId,
\* which are `members`.
GroupsWithMembers(groupId, members) ==
  [i \in 1..Len(groups) |->
     IF groups[i].id = groupId THEN [groups[i] EXCEPT !.members = members]
     ELSE groups[i]]

C13_AddOutcome ==
  \A u \in Ids : \A g \in Ids :
    LET outcome == addUserToGroupOutcome(u, g)
    IN  IF ~StoredPrincipal(u, "user") \/ ~StoredPrincipal(g, "group")
        THEN outcome.error = "NOT_FOUND" /\ outcome.groups = groups
        ELSE IF u \in MembersOf(g)
        THEN outcome.error = "INVALID_OPERATION" /\ outcome.groups = groups
        ELSE /\ outcome.error = NoError
             /\ outcome.result = TRUE
             /\ \E h \in StoredGroups :
                  /\ h.id = g
                  /\ outcome.groups = GroupsWithMembers(g, Append(h.members, u))

C13_NoDuplicateMembers ==
  \A g \in StoredGroups : \A i, j \in 1..Len(g.members) :
    g.members[i] = g.members[j] => i = j

\* An addUserToGroup that returns true changes the groups and leaves as
\* many of them: only such steps need to be looked at.
C13_AddFrame ==
  (groups' # groups /\ Len(groups') = Len(groups)) =>
    \A u \in Ids : \A g \in Ids :
      addUserToGroup(u, g) =>
        /\ groups' = addUserToGroupOutcome(u, g).groups
        /\ users' = users
        /\ permissions' = permissions

\* C13: addUserToGroup(u, g) returns NOT_FOUND when u is the id of no stored
\* user or g the id of no stored group, INVALID_OPERATION when u is a member
\* of g already, and otherwise true, appending u to the members of g and
\* changing nothing else; no group's members hold one user id twice.
C13_AddUserToGroup ==
  [](C13_AddOutcome /\ C13_NoDuplicateMembers) /\ [][C13_AddFrame]_vars

\* A group has two members.
C13_Witness == \E g \in StoredGroups : Len(g.members) = 2

C14_RemoveOutcome ==
  \A u \in Ids : \A g \in Ids :
    LET outcome == removeUserFromGroupOutcome(u, g)
    IN  IF ~StoredPrincipal(g, "group") \/ u \notin MembersOf(g)
        THEN outcome.error = "NOT_FOUND" /\ outcome.groups = groups
        ELSE /\ outcome.error = NoError
             /\ outcome.result = TRUE
             /\ \E h \in StoredGroups :
                  /\ h.id = g
                  /\ outcome.groups =
                       GroupsWithMembers(g, SelectSeq(h.members, LAMBDA m : m # u))

\* A removeUserFromGroup that returns true changes the groups and leaves as
\* many of them: only such steps need to be looked at.
C14_RemoveFrame ==
  (groups' # groups /\ Len(groups') = Len(groups)) =>
    \A u \in Ids : \A g \in Ids :
      removeUserFromGroup(u, g) =>
        /\ groups' = removeUserFromGroupOutcome(u, g).groups
        /\ users' = users
        /\ permissions' = permissions

\* C14: removeUserFromGroup(u, g) returns NOT_FOUND and changes nothing when
\* g is the id of no stored group or u is no member of g; otherwise it
\* returns true and removes u from the members of g, leaving every other
\* group, the other members of g, the users and the permissions as they are.
C14_RemoveUserFromGroup ==
  []C14_RemoveOutcome /\ [][C14_RemoveFrame]_vars

\* A group has two members, the user created second before the user
\* created first, and a Permission is recorded.
C14_Witness ==
  /\ permissions # <<>>
  /\ \E g \in StoredGroups :
       /\ Len(g.members) = 2
       /\ g.members[1] = uuidv4("user", 2)

\* C15 as the specification states it: what getAllUsers and getAllGroups
\* return is a copy. A holder that reorders a returned list leaves the
\* users and the groups as they are, and a returned list holds after a
\* later createUser or createGroup what it held before.
C15_ListsAreDefensiveCopies ==
  [][/\ \A which \in {"users", "groups"} :
          reverseReturned(which) => (users' = users /\ groups' = groups)
     /\ (Len(users') > Len(users) \/ Len(groups') > Len(groups)) =>
          \A which \in {"users", "groups"} :
            held[which] # Undefined =>
              Contents(held[which])' = Contents(held[which])]_vars

\* The places in the permissions array of the Permissions on document d
\* with grantee type t.
GrantsOn(d, t) ==
  {i \in 1..Len(permissions) :
     permissions[i].documentId = d /\ permissions[i].granteeType = t}

\* `entries` has one entry for each of the Permissions at `places`, paired
\* with it, and no other entry.
OneEntryPerGrant(entries, places) ==
  /\ Len(entries) = Cardinality(places)
  /\ \A i \in places :
       Cardinality({k \in 1..Len(entries) : entries[k].permission = permissions[i]}) = 1

\* C16: getDocumentAccessList(D) lists the Permissions on D as they are
\* recorded: its users are one entry per Permission on D of grantee type
\* user, its groups one entry per Permission on D of grantee type group,
\* each with the stored user or group the Permission names; a user whom
\* only a grant to a group reaches is in no entry of users.
C16_AccessListIsRawProjection ==
  \A d \in Documents :
    LET list == getDocumentAccessList(d)
    IN  /\ OneEntryPerGrant(list.users, GrantsOn(d, "user"))
        /\ OneEntryPerGrant(list.groups, GrantsOn(d, "group"))
        /\ \A k \in 1..Len(list.users) :
             /\ list.users[k].user \in StoredUsers
             /\ list.users[k].user.id = list.users[k].permission.granteeId
        /\ \A k \in 1..Len(list.groups) :
             /\ list.groups[k].group \in StoredGroups
             /\ list.groups[k].group.id = list.groups[k].permission.granteeId
        /\ \A u \in StoredUsers :
             (\A p \in EffectiveSet(d, u.id) : p.granteeType = "group") =>
               \A k \in 1..Len(list.users) : list.users[k].user # u

\* A user is reached on a document by a grant to a group only, and a user
\* holds a direct grant on the other document.
C16_Witness ==
  \E u \in StoredUsers : \E d \in Documents :
    /\ EffectiveSet(d, u.id) # {}
    /\ \A p \in EffectiveSet(d, u.id) : p.granteeType = "group"
    /\ \E q \in StoredPermissions : q.documentId # d /\ q.granteeType = "user"

\* The stored Permission p is the object of a call in progress that has
\* written its level and not yet its updatedAt, at a moment when the clock
\* is past the updatedAt it still has: p is neither the Permission as it
\* was before the call (the level differs) nor the Permission as it will be
\* after it (the updatedAt will be a reading of the clock not before now).
PartlyUpdated(p) ==
  \E call \in inProgress :
    /\ call.line = 230
    /\ call.existingPermission.id = p.id
    /\ p.level # call.existingPermission.level
    /\ p.updatedAt = call.existingPermission.updatedAt
    /\ p.updatedAt < now

PermissionsOfTuple(call, perms) ==
  Cardinality({i \in 1..Len(perms) :
                 SameTuple(perms[i], call.documentId, call.granteeId, call.granteeType)})

C18_LookupStillHolds ==
  /\ Cardinality(inProgress) <= 1
  /\ \A call \in inProgress :
       call.line = 235 => PermissionsOfTuple(call, permissions) = 0
  /\ \A p \in StoredPermissions : PermissionsOfTuple(p, permissions) = 1

C18_OneAfterReturn ==
  \A call \in inProgress :
    (grantPermissionLine235(call) \/ grantPermissionLine230(call)) =>
      PermissionsOfTuple(call, permissions') = 1

\* C18: calls of grantPermission run one after the other. While a call that
\* found no Permission of its tuple is in progress none is stored, no other
\* call is in progress, and when a call returns exactly one Permission of
\* its tuple is stored.
C18_GrantsRunOneAfterTheOther ==
  []C18_LookupStillHolds /\ [][C18_OneAfterReturn]_vars

\* Two calls of grantPermission for one tuple have returned, the first
\* having created the Permission and the second, at a later reading of the
\* clock, having found it: it is the one Permission there has ever been.
C18_Witness ==
  /\ inProgress = {}
  /\ uuidCount = 1
  /\ Len(permissions) = 1
  /\ permissions[1].updatedAt > permissions[1].grantedAt

\* The types of PermissionError the specification gives the operations:
\* ValidationError, NotFound and Conflict.
ErrorKinds == {"VALIDATION_ERROR", "NOT_FOUND", "INVALID_OPERATION"}

\* The outcome is the success value `value` or an error of those kinds.
ValueOrError(outcome, value) ==
  \/ outcome.error = NoError /\ outcome.result = value
  \/ outcome.error \in ErrorKinds

\* C19: for every input and in every reachable state, createUser,
\* createGroup, addUserToGroup, removeUserFromGroup, grantPermission and
\* revokePermission return their success value (the stored user, group or
\* Permission, or true) or a PermissionError of type VALIDATION_ERROR,
\* NOT_FOUND or INVALID_OPERATION, never UNAUTHORIZED and never a failure
\* thrown; checkPermission returns a boolean and getDocumentAccessList its
\* two lists.
C19_OperationsAreTotal ==
  /\ \A name \in TextInputs.names : \A email \in TextInputs.emails :
     \A role \in TextInputs.roles :
       LET outcome == createUserOutcome(name, email, role)
       IN  ValueOrError(outcome, outcome.users[Len(outcome.users)])
  /\ \A name \in TextInputs.groupNames :
       LET outcome == createGroupOutcome(name, <<>>)
       IN  ValueOrError(outcome, outcome.groups[Len(outcome.groups)])
  /\ \A u \in Ids : \A g \in Ids :
       /\ ValueOrError(addUserToGroupOutcome(u, g), TRUE)
       /\ ValueOrError(removeUserFromGroupOutcome(u, g), TRUE)
  /\ \A d \in TextInputs.documents : \A g \in Ids : \A t \in GranteeTypes :
       /\ ValueOrError(revokePermissionOutcome(d, g, t), TRUE)
       /\ \A l \in PermissionLevel : \A by \in TextInputs.callers :
            LET outcome == grantPermissionOutcome(d, g, t, l, by, now, now)
            IN  \/ outcome.error \in ErrorKinds
                \/ \E i \in 1..Len(outcome.permissions) :
                     ValueOrError(outcome, outcome.permissions[i])
  /\ \A d \in TextInputs.documents :
       /\ \A u \in Ids : \A l \in PermissionLevel :
            checkPermission(d, u, l) \in BOOLEAN
       /\ DOMAIN getDocumentAccessList(d) = {"users", "groups"}
       /\ Len(getDocumentAccessList(d).users) + Len(getDocumentAccessList(d).groups)
            <= Len(permissions)

\* A state in which calls return each type of error and calls succeed: a
\* user and a group with a member are stored, with a Permission.
C19_Witness ==
  /\ \E name \in TextInputs.names : \E email \in TextInputs.emails :
       createUserOutcome(name, email, "user").error = "INVALID_OPERATION"
  /\ \E name \in TextInputs.names : \E email \in TextInputs.emails :
       createUserOutcome(name, email, "user").error = "VALIDATION_ERROR"
  /\ \E u \in Ids : \E g \in Ids :
       /\ addUserToGroupOutcome(u, g).error = "INVALID_OPERATION"
       /\ removeUserFromGroupOutcome(u, g).error = NoError
  /\ \E g \in Ids : \E t \in GranteeTypes :
       revokePermissionOutcome("d1", g, t).error = NoError
  /\ \E g \in Ids : \E t \in GranteeTypes :
       revokePermissionOutcome("d1", g, t).error = "NOT_FOUND"

\* The Permission with its grantedBy left out.
WithoutGrantedBy(p) == [p EXCEPT !.grantedBy = SessionUserId]

\* The values of grantedBy compared: the session's id, which is the id of
\* no stored user, the id of the first user and the id of a second user
\* (a stored user or not).
GrantedByValues == Callers \cup {uuidv4("user", 2)}

\* C20: grantPermission does not look at who calls. For one state and one
\* (documentId, granteeId, granteeType, level) the call returns an error or
\* not, the same error, for every grantedBy; the Permissions it leaves are
\* the same but for the grantedBy of a Permission it has created, and a
\* Permission it has updated keeps the grantedBy it had.
C20_GrantedByIsNotChecked ==
  \A d \in ClockInputs.documents : \A g \in Ids : \A t \in GranteeTypes :
  \A l \in PermissionLevel :
    LET session == grantPermissionOutcome(d, g, t, l, SessionUserId, now, now)
        existing == existingPermissionIndex(d, g, t)
    IN  \A by \in GrantedByValues :
          LET outcome == grantPermissionOutcome(d, g, t, l, by, now, now)
          IN  /\ outcome.error = session.error
              /\ outcome.uuids = session.uuids
              /\ Len(outcome.permissions) = Len(session.permissions)
              /\ \A i \in 1..Len(outcome.permissions) :
                   WithoutGrantedBy(outcome.permissions[i]) =
                     WithoutGrantedBy(session.permissions[i])
              /\ ~isError(outcome) =>
                   /\ outcome.result.level = l
                   /\ outcome.result.grantedBy =
                        IF existing = 0 THEN by ELSE permissions[existing].grantedBy

\* A stored Permission was granted by a user who is no administrator and
\* whom no grant on the document reaches; the session's id and the id of a
\* second user are ids of no stored user.
C20_Witness ==
  /\ \E p \in StoredPermissions : \E u \in NonAdmins :
       /\ p.grantedBy = u.id
       /\ EffectiveSet(p.documentId, u.id) = {}
  /\ \A by \in GrantedByValues \ {uuidv4("user", 1)} : ~StoredPrincipal(by, "user")

C21_UpdateOutcome ==
  \A i \in 1..Len(permissions) : \A level \in PermissionLevel : \A by \in Callers :
    LET p == permissions[i]
        outcome == grantPermissionOutcome(p.documentId, p.granteeId, p.granteeType,
                                          level, by, now, now)
        q == outcome.permissions[i]
    IN  /\ outcome.error = NoError
        /\ outcome.uuids = uuidCount
        /\ Len(outcome.permissions) = Len(permissions)
        /\ \A k \in 1..Len(permissions) : k # i => outcome.permissions[k] = permissions[k]
        /\ outcome.result = q
        /\ q.level = level /\ q.updatedAt = now
        /\ q.id = p.id /\ q.documentId = p.documentId /\ q.granteeId = p.granteeId
        /\ q.granteeType = p.granteeType /\ q.grantedBy = p.grantedBy
        /\ q.grantedAt = p.grantedAt

\* A grantPermission for the tuple of a stored Permission leaves as many
\* Permissions and changes one: only such steps need to be looked at.
C21_UpdateFrame ==
  (permissions' # permissions /\ Len(permissions') = Len(permissions)) =>
    \A i \in 1..Len(permissions) : \A level \in PermissionLevel : \A by \in Callers :
      grantPermission(permissions[i].documentId, permissions[i].granteeId,
                      permissions[i].granteeType, level, by, now, now) =>
        /\ permissions' = [permissions EXCEPT ![i].level = level, ![i].updatedAt = now]
        /\ users' = users
        /\ groups' = groups

\* C21: grantPermission for a tuple that has a Permission writes the level
\* and the updatedAt of that Permission and nothing else: its id, document,
\* grantee, grantedBy (whoever calls) and grantedAt stay, every other
\* Permission stays, and the level given replaces the level there was, be
\* it higher, lower or the same.
C21_UpdateWritesLevelAndUpdatedAtOnly ==
  []C21_UpdateOutcome /\ [][C21_UpdateFrame]_vars

\* Two Permissions are stored, one granted by the first user and of a level
\* with levels below and above it, updated after it was granted.
C21_Witness ==
  /\ Len(permissions) = 2
  /\ \E p \in StoredPermissions :
       /\ p.grantedBy = uuidv4("user", 1)
       /\ p.level = "edit"
       /\ p.updatedAt > p.grantedAt

\* C22: no step removes or changes a stored user, and no step removes a
\* stored group or changes its id, name or description; the members of a
\* group change in steps of addUserToGroup and removeUserFromGroup only.
C22_PrincipalsStay ==
  [][/\ \A u \in StoredUsers : u \in StoredUsers'
     /\ Len(users') >= Len(users)
     /\ Len(groups') >= Len(groups)
     /\ \A g \in StoredGroups :
          \E h \in StoredGroups' :
            /\ h.id = g.id /\ h.name = g.name /\ h.description = g.description
            /\ h.members # g.members =>
                 \E u \in Ids :
                   addUserToGroup(u, g.id) \/ removeUserFromGroup(u, g.id)]_vars

\* Two users and a group with one member are stored, after two Permissions
\* have been granted and one of them revoked.
C22_Witness ==
  /\ Len(users) = 2
  /\ \E g \in StoredGroups : Len(g.members) = 1
  /\ uuidCount = 2
  /\ Len(permissions) = 1

\* C23: the grantee of every stored Permission is a stored user when its
\* type is user and a stored group when its type is group, and no entry of
\* getDocumentAccessList has an undefined user or group.
C23_GranteesAreStored ==
  /\ \A p \in StoredPermissions : StoredPrincipal(p.granteeId, p.granteeType)
  /\ \A d \in Documents :
       /\ \A k \in 1..Len(getDocumentAccessList(d).users) :
            getDocumentAccessList(d).users[k].user # Undefined
       /\ \A k \in 1..Len(getDocumentAccessList(d).groups) :
            getDocumentAccessList(d).groups[k].group # Undefined

\* The access list of a document has a user and a group, and ids that are
\* the id of no stored principal are left.
C23_Witness ==
  /\ \E d \in Documents :
       /\ Len(getDocumentAccessList(d).users) = 1
       /\ Len(getDocumentAccessList(d).groups) = 1
  /\ \E g \in Ids : ~StoredPrincipal(g, "user") /\ ~StoredPrincipal(g, "group")
  /\ Len(users) = 2

C25_CheckFollowsMembership ==
  \A u \in NonAdmins :
    /\ \A d \in Documents :
         EffectiveSet(d, u.id) = {} =>
           \A l \in PermissionLevel : ~checkPermission(d, u.id, l)
    /\ \A g \in StoredGroups :
         u.id \in Members(g) =>
           \A p \in StoredPermissions :
             SameTuple(p, p.documentId, g.id, "group") =>
               \A l \in PermissionLevel :
                 LevelRank(l) <= LevelRank(p.level) =>
                   checkPermission(p.documentId, u.id, l)

\* A step of addUserToGroup(U, G) leaves U a member of G, a step of
\* removeUserFromGroup(U, G) leaves U no member of G.
C25_MembershipStep ==
  (groups' # groups /\ Len(groups') = Len(groups)) =>
    \A u \in Ids : \A g \in Ids :
      /\ addUserToGroup(u, g) => u \in MembersOf(g)'
      /\ removeUserFromGroup(u, g) => u \notin MembersOf(g)'

\* C25: after a removeUserFromGroup(U, G) that returns true, for a user U
\* who is no administrator, checkPermission(D, U, L) is false at every
\* level on every document D on which U has no direct grant and no group of
\* U has a grant; after an addUserToGroup(U, G) that returns true,
\* checkPermission(D, U, L) is true for every level L at or below the level
\* of G's grant on D. The check reads the members as the step has left them.
C25_MembershipTakesEffect ==
  []C25_CheckFollowsMembership /\ [][C25_MembershipStep]_vars

\* A user who is no administrator is a member of the second of two groups
\* and of it only; each group holds a grant on one document and the user
\* holds no direct grant on it.
C25_Witness ==
  /\ Len(groups) = 2
  /\ \E u \in NonAdmins : \E d \in Documents :
       /\ u.id \notin Members(groups[1])
       /\ u.id \in Members(groups[2])
       /\ \E p \in StoredPermissions : SameTuple(p, d, groups[1].id, "group")
       /\ \E p \in StoredPermissions : SameTuple(p, d, groups[2].id, "group")

StoredFolders == {folders[i] : i \in 1..Len(folders)}

\* C26 as the specification states it: getFolderPath and getBreadcrumbPath
\* return for the id of every stored folder, no folder being its own parent
\* or its own ancestor.
C26_PathWalksTerminate ==
  \A f \in StoredFolders :
    /\ f.parentId # f.id
    /\ ~getFolderPath(f.id).diverges
    /\ ~getBreadcrumbPath(f.id).diverges

\* The names of the ancestors of the folder, from the root down to its
\* parent, when the walk from its parent ends.
AncestorNames(f) ==
  LET above == walkToRoot(f.parentId, <<>>).path
  IN  [i \in 1..Len(above) |-> above[i].name]

\* C27 as the specification states it: the path of every stored folder is
\* the names of its ancestors as they are now, from the root down to its
\* parent, and empty for a folder at the root.
C27_PathIsAncestorNames ==
  \A f \in StoredFolders :
    ~walkToRoot(f.parentId, <<>>).diverges => f.path = AncestorNames(f)

\* C28 as the specification states it: no two stored folders of one parent
\* have names that are equal ignoring case.
C28_SiblingNamesUnique ==
  \A i, j \in 1..Len(folders) :
    (/\ folders[i].parentId = folders[j].parentId
     /\ toLowerCase(folders[i].name) = toLowerCase(folders[j].name)) => i = j

\* C29 as the specification states it: at most one run of handleUpload is
\* in progress, the Upload button is disabled while one is, and the
\* documents are as many as the runs that have ended.
C29_OneUploadAtATime ==
  /\ Cardinality(uploads) <= 1
  /\ uploads # {} => UploadButtonDisabled
  /\ Len(documents) + Cardinality(uploads) = uploadCount

\* C30, in every state: every association of documentTags refers to a
\* stored tag, and no (documentId, tagId) pair is in documentTags twice.
C30_AssociationsAreValid ==
  /\ \A i \in 1..Len(documentTags) : tagIndexById(documentTags[i].tagId) # 0
  /\ \A i, j \in 1..Len(documentTags) : documentTags[i] = documentTags[j] => i = j

\* C30, in every step that is a successful deleteTag(t) (the only steps
\* after which a stored tag is stored no more): getDocumentsByTag(t) is
\* empty afterwards and the associations of every other tag are as before.
C30_DeleteStep ==
  \A t \in TagIds :
    tagIndexById(t) # 0 /\ (tagIndexById(t) = 0)'
      => /\ getDocumentsByTag(t)' = <<>>
         /\ \A d \in Documents :
              getDocumentTags(d)' = SelectSeq(getDocumentTags(d), LAMBDA tag : tag.id # t)
         /\ \A u \in TagIds \ {t} : getDocumentsByTag(u)' = getDocumentsByTag(u)

\* C30: deleteTag cascades to the associations, which always refer to
\* stored tags, once each; a successful deleteTag(t) leaves
\* getDocumentsByTag(t) empty and the associations of the other tags as
\* they were.
C30_DeleteTagCascades ==
  []C30_AssociationsAreValid /\ [][C30_DeleteStep]_vars

\* A tag has been deleted and the other tag is still on both documents.
C30_Witness ==
  /\ tagCount = MaxTagIds
  /\ Len(tags) = 1
  /\ Len(getDocumentsByTag(tags[1].id)) = 2
  /\ \E t \in TagIds : tagIndexById(t) = 0 /\ getDocumentsByTag(t) = <<>>

====
